---- MODULE Spec2Model ----
(***************************************************************************)
(* A model of the core of CDKeyGener.py: build_alphabet,                   *)
(* capacity_estimate, apply_grouping, generate_one, keyspace_length,       *)
(* generate_keys and save_keys.                                            *)
(*                                                                         *)
(* A Python str is a sequence of one-character strings.  A Python int is   *)
(* unbounded, and the code compares against 10**18, so integers that can   *)
(* grow are kept as arbitrary-precision naturals: little-endian sequences  *)
(* of limbs in base LimbBase, without leading zero limbs (zero is <<>>).   *)
(***************************************************************************)
EXTENDS Integers, Sequences, FiniteSets, TLC

(***************************************************************************)
(* Arbitrary-precision naturals (Python int).                              *)
(***************************************************************************)
LimbBase == 1000 * 1000

RECURSIVE BigFromNat(_)
BigFromNat(n) ==
    IF n = 0 THEN <<>> ELSE <<n % LimbBase>> \o BigFromNat(n \div LimbBase)

RECURSIVE BigMulCarry(_, _, _)
BigMulCarry(b, m, carry) ==
    IF b = <<>>
    THEN BigFromNat(carry)
    ELSE LET t == Head(b) * m + carry
         IN  <<t % LimbBase>> \o BigMulCarry(Tail(b), m, t \div LimbBase)

\* b * m for a bignum b and a small natural m >= 1
BigMulSmall(b, m) == BigMulCarry(b, m, 0)

RECURSIVE BigAddCarry(_, _, _)
BigAddCarry(a, b, carry) ==
    IF a = <<>> /\ b = <<>>
    THEN BigFromNat(carry)
    ELSE LET x == IF a = <<>> THEN 0 ELSE Head(a)
             y == IF b = <<>> THEN 0 ELSE Head(b)
             t == x + y + carry
         IN  <<t % LimbBase>>
             \o BigAddCarry(IF a = <<>> THEN a ELSE Tail(a),
                            IF b = <<>> THEN b ELSE Tail(b),
                            t \div LimbBase)

RECURSIVE BigStrip(_)
BigStrip(b) ==
    IF b # <<>> /\ b[Len(b)] = 0 THEN BigStrip(SubSeq(b, 1, Len(b) - 1)) ELSE b

RECURSIVE BigDecRaw(_)
BigDecRaw(b) ==
    IF Head(b) > 0
    THEN <<Head(b) - 1>> \o Tail(b)
    ELSE <<LimbBase - 1>> \o BigDecRaw(Tail(b))

\* b - 1 for b >= 1
BigDec(b) == BigStrip(BigDecRaw(b))

BigInc(b) == BigAddCarry(b, <<>>, 1)

RECURSIVE BigLessFrom(_, _, _)
BigLessFrom(a, b, i) ==
    IF i = 0 THEN FALSE
    ELSE IF a[i] # b[i] THEN a[i] < b[i]
    ELSE BigLessFrom(a, b, i - 1)

\* a < b
BigLess(a, b) ==
    IF Len(a) # Len(b) THEN Len(a) < Len(b) ELSE BigLessFrom(a, b, Len(a))

\* acc * base^e when that is below limit, and otherwise a partial product
\* that has already reached limit (base >= 1 keeps the product from falling back)
RECURSIVE BigPowBelow(_, _, _, _)
BigPowBelow(acc, base, e, limit) ==
    IF e = 0 \/ ~BigLess(acc, limit)
    THEN acc
    ELSE BigPowBelow(BigMulSmall(acc, base), base, e - 1, limit)

\* base^e for a small exponent
RECURSIVE BigPow(_, _)
BigPow(base, e) ==
    IF e = 0 THEN BigFromNat(1) ELSE BigMulSmall(BigPow(base, e - 1), base)

\* the value of a bignum known to be small
RECURSIVE BigToNat(_)
BigToNat(b) == IF b = <<>> THEN 0 ELSE Head(b) + LimbBase * BigToNat(Tail(b))

\* A signed Python int: sign and magnitude.
SignedZero == [neg |-> FALSE, mag |-> <<>>]

\* n + 1
SignedInc(n) ==
    IF n.neg
    THEN LET m == BigDec(n.mag) IN [neg |-> m # <<>>, mag |-> m]
    ELSE [neg |-> FALSE, mag |-> BigInc(n.mag)]

\* n > t for a signed n and a natural bignum t
SignedGreater(n, t) == ~n.neg /\ BigLess(t, n.mag)

(***************************************************************************)
(* Characters and strings.                                                 *)
(***************************************************************************)
Range(s) == {s[i] : i \in 1..Len(s)}

LowerLetters ==
    <<"a","b","c","d","e","f","g","h","i","j","k","l","m",
      "n","o","p","q","r","s","t","u","v","w","x","y","z">>

UpperLetters ==
    <<"A","B","C","D","E","F","G","H","I","J","K","L","M",
      "N","O","P","Q","R","S","T","U","V","W","X","Y","Z">>

Digits == <<"0","1","2","3","4","5","6","7","8","9">>

\* The characters a str holds here are U+0001..U+00FE without U+0060, and
\* U+039C, U+03BC and U+1680.  (No string can be written with U+0060 in it,
\* nor with U+0178, the upper case of U+00FF.)
\* U+0001..U+005F, in code point order
CharsBelowGrave ==
    <<"","","","","","","","","\t","\n","","\f","\r","","","",
      "","","","","","","","","","","","","","",""," ",
      "!","\"","#","$","%","&","'","(",")","*","+",",","-",".","/","0",
      "1","2","3","4","5","6","7","8","9",":",";","<","=",">","?","@",
      "A","B","C","D","E","F","G","H","I","J","K","L","M","N","O","P",
      "Q","R","S","T","U","V","W","X","Y","Z","[","\\","]","^","_">>

\* U+0061..U+00FE, in code point order
CharsAboveGrave ==
    <<"a","b","c","d","e","f","g","h","i","j","k","l","m","n","o","p",
      "q","r","s","t","u","v","w","x","y","z","{","|","}","~","","",
      "","","","","","","","","","","","","","","","",
      "","","","","","","","","","","","","","",""," ",
      "¡","¢","£","¤","¥","¦","§","¨","©","ª","«","¬","­","®","¯","°",
      "±","²","³","´","µ","¶","·","¸","¹","º","»","¼","½","¾","¿","À",
      "Á","Â","Ã","Ä","Å","Æ","Ç","È","É","Ê","Ë","Ì","Í","Î","Ï","Ð",
      "Ñ","Ò","Ó","Ô","Õ","Ö","×","Ø","Ù","Ú","Û","Ü","Ý","Þ","ß","à",
      "á","â","ã","ä","å","æ","ç","è","é","ê","ë","ì","í","î","ï","ð",
      "ñ","ò","ó","ô","õ","ö","÷","ø","ù","ú","û","ü","ý","þ">>

Chars == Range(CharsBelowGrave) \cup Range(CharsAboveGrave) \cup {"Μ", "μ", " "}

CodePoint ==
    [ch \in Chars |->
        IF ch \in Range(CharsBelowGrave)
        THEN CHOOSE i \in 1..Len(CharsBelowGrave) : CharsBelowGrave[i] = ch
        ELSE IF ch \in Range(CharsAboveGrave)
        THEN 96 + (CHOOSE i \in 1..Len(CharsAboveGrave) : CharsAboveGrave[i] = ch)
        ELSE IF ch = "Μ" THEN 924
        ELSE IF ch = "μ" THEN 956
        ELSE 5760]

\* ord(ch)
Ord(ch) == CodePoint[ch]

\* chr(n)
Chr(n) == CHOOSE ch \in Chars : CodePoint[ch] = n

\* str.isspace() on one character: \t \n \v \f \r, U+001C..U+001F, the space,
\* U+0085, U+00A0 and U+1680
IsSpace(ch) == Ord(ch) \in (9..13) \cup (28..32) \cup {133, 160, 5760}

\* str.upper() on one character: a..z; the Latin-1 letters U+00E0..U+00FE
\* (U+00F7 is the division sign), 32 code points above their upper case; the
\* sharp s, whose upper case is two characters; the micro sign and the Greek
\* mu, whose upper case is U+039C
UpperChar(ch) ==
    IF ch \in Range(LowerLetters)
    THEN <<UpperLetters[CHOOSE i \in 1..Len(LowerLetters) : LowerLetters[i] = ch]>>
    ELSE IF ch = "ß" THEN <<"S", "S">>
    ELSE IF Ord(ch) \in (224..254) \ {247} THEN <<Chr(Ord(ch) - 32)>>
    ELSE IF Ord(ch) \in {181, 956} THEN <<Chr(924)>>
    ELSE <<ch>>

\* str.upper()
RECURSIVE Upper(_)
Upper(s) == IF s = <<>> THEN <<>> ELSE UpperChar(Head(s)) \o Upper(Tail(s))

\* Optional[str]
None == [some |-> FALSE, str |-> <<>>]
Some(s) == [some |-> TRUE, str |-> s]

\* truth value of an Optional[str]: neither None nor ""
Truthy(o) == o.some /\ o.str # <<>>

(***************************************************************************)
(* build_alphabet                                                          *)
(***************************************************************************)
DEFAULT_ALPHABET_NO_AMBIG ==
    <<"A","B","C","D","E","F","G","H","J","K","M","N","P","Q","R","S",
      "T","U","V","W","X","Y","Z","2","3","4","5","6","7","8","9">>

DEFAULT_ALPHABET_FULL == UpperLetters \o Digits

AmbiguousChars == <<"0", "O", "1", "I", "L">>

\* "".join(dict.fromkeys(s)): the first occurrence of every character, in order
RECURSIVE Dedup(_)
Dedup(s) ==
    IF s = <<>> THEN <<>>
    ELSE LET init == SubSeq(s, 1, Len(s) - 1)
             d == Dedup(init)
         IN  IF s[Len(s)] \in Range(init) THEN d ELSE Append(d, s[Len(s)])

\* s.replace(ch, "")
RemoveChar(s, ch) == SelectSeq(s, LAMBDA c : c # ch)

RECURSIVE RemoveAll(_, _)
RemoveAll(s, chars) ==
    IF chars = <<>> THEN s ELSE RemoveAll(RemoveChar(s, Head(chars)), Tail(chars))

StripSpace(s) == SelectSeq(s, LAMBDA c : ~IsSpace(c))

\* the base characters build_alphabet starts from
AlphabetBase(custom, avoid_ambiguous) ==
    IF Truthy(custom) THEN custom.str
    ELSE IF avoid_ambiguous THEN DEFAULT_ALPHABET_NO_AMBIG
    ELSE DEFAULT_ALPHABET_FULL

\* a normalization that keeps repeated characters
NormalizeDedupSkipped(alph) == alph

NormalizeDedup(alph) == Dedup(alph)

NormalizeAmbiguous(alph, avoid_ambiguous) ==
    IF avoid_ambiguous THEN RemoveAll(alph, AmbiguousChars) ELSE alph

\* the normalized alphabet, before the size check
NormalizeAlphabet(custom, avoid_ambiguous) ==
    StripSpace(NormalizeAmbiguous(NormalizeDedup(AlphabetBase(custom, avoid_ambiguous)),
                                  avoid_ambiguous))

\* build_alphabet: the alphabet, or the ValueError "Alphabet is too small"
build_alphabet(custom, avoid_ambiguous) ==
    LET alph == NormalizeAlphabet(custom, avoid_ambiguous)
    IN  IF Len(alph) < 2
        THEN [raised |-> TRUE, value |-> <<>>]
        ELSE [raised |-> FALSE, value |-> alph]

(***************************************************************************)
(* capacity_estimate, apply_grouping, generate_one, keyspace_length        *)
(***************************************************************************)
\* 10**18
CapCeiling == BigPow(10, 18)

capacity_estimate(alphabet_len, keyspace_len) ==
    LET val == BigPowBelow(BigFromNat(1), alphabet_len, keyspace_len, CapCeiling)
    IN  IF BigLess(val, CapCeiling) THEN val ELSE CapCeiling

\* sep.join(parts) for a sequence of strings
RECURSIVE Join(_, _)
Join(parts, sep) ==
    IF parts = <<>> THEN <<>>
    ELSE IF Len(parts) = 1 THEN parts[1]
    ELSE parts[1] \o sep \o Join(Tail(parts), sep)

\* [raw[i : i + groupsize] for i in range(0, len(raw), groupsize)]
RECURSIVE Chunks(_, _)
Chunks(raw, groupsize) ==
    IF raw = <<>> THEN <<>>
    ELSE IF Len(raw) <= groupsize THEN <<raw>>
    ELSE <<SubSeq(raw, 1, groupsize)>>
         \o Chunks(SubSeq(raw, groupsize + 1, Len(raw)), groupsize)

\* a grouping that loses the short chunk at the end
apply_grouping_whole_chunks(raw, groupsize, sep) ==
    IF groupsize <= 0 THEN raw
    ELSE Join(SelectSeq(Chunks(raw, groupsize), LAMBDA part : Len(part) = groupsize), sep)

apply_grouping(raw, groupsize, sep) ==
    IF groupsize <= 0 THEN raw ELSE Join(Chunks(raw, groupsize), sep)

\* the number of 'X' in a pattern
CountX(pattern) == Cardinality({i \in 1..Len(pattern) : pattern[i] = "X"})

keyspace_length(cfg) ==
    IF Truthy(cfg.pattern) THEN CountX(cfg.pattern.str) ELSE cfg.length

\* the pattern with its i-th 'X' replaced by alphabet[draws[i]]
RECURSIVE FillPattern(_, _, _)
FillPattern(pattern, alphabet, draws) ==
    IF pattern = <<>> THEN <<>>
    ELSE IF Head(pattern) = "X"
    THEN <<alphabet[Head(draws)]>> \o FillPattern(Tail(pattern), alphabet, Tail(draws))
    ELSE <<Head(pattern)>> \o FillPattern(Tail(pattern), alphabet, draws)

\* cfg.length characters, the i-th being alphabet[draws[i]]
RawKey(len, alphabet, draws) == [i \in 1..len |-> alphabet[draws[i]]]

ApplyUppercase(key, uppercase) == IF uppercase THEN Upper(key) ELSE key

\* a generate_one that groups the filled pattern too
generate_one_grouped_pattern(cfg, alphabet, draws) ==
    IF Truthy(cfg.pattern)
    THEN ApplyUppercase(apply_grouping(FillPattern(cfg.pattern.str, alphabet, draws),
                                       cfg.groupsize, cfg.sep),
                        cfg.uppercase)
    ELSE ApplyUppercase(apply_grouping(RawKey(cfg.length, alphabet, draws),
                                       cfg.groupsize, cfg.sep),
                        cfg.uppercase)

\* generate_one, with the indices rng.choice picks (1-based) as the input
\* draws: one index per 'X' in pattern mode, cfg.length indices otherwise
generate_one(cfg, alphabet, draws) ==
    IF Truthy(cfg.pattern)
    THEN ApplyUppercase(FillPattern(cfg.pattern.str, alphabet, draws), cfg.uppercase)
    ELSE ApplyUppercase(apply_grouping(RawKey(cfg.length, alphabet, draws),
                                       cfg.groupsize, cfg.sep),
                        cfg.uppercase)

\* every sequence of picks rng.choice can make during one generate_one
DrawChoices(cfg, alphabet) == [1..keyspace_length(cfg) -> 1..Len(alphabet)]

(***************************************************************************)
(* generate_keys as a state machine.                                       *)
(*                                                                         *)
(* cfg is the GenConfig of the call (its count a bignum); alphabet, cap,   *)
(* keys, seen and attempts are the locals of generate_keys; log is what    *)
(* _log has printed; rejected counts the draws the loop skipped with       *)
(* `continue`; fs and save_status belong to save_keys, further down.       *)
(***************************************************************************)
VARIABLES pc, cfg, alphabet, cap, keys, seen, attempts, log, rejected,
          fs, save_status

vars == <<pc, cfg, alphabet, cap, keys, seen, attempts, log, rejected,
          fs, save_status>>

genVars == <<pc, cfg, alphabet, cap, keys, seen, attempts, log, rejected>>

\* the dataclass defaults of GenConfig
GenConfig ==
    [count |-> BigFromNat(10), length |-> 25, pattern |-> None,
     alphabet |-> Some(DEFAULT_ALPHABET_NO_AMBIG), avoid_ambiguous |-> TRUE,
     unique |-> TRUE, groupsize |-> 0, sep |-> <<"-">>, uppercase |-> TRUE]

\* attempts = -10**18
AttemptsSentinel == [neg |-> TRUE, mag |-> CapCeiling]

\* the alphabet generate_keys builds from its config
ConfigAlphabet(c) ==
    IF ~c.alphabet.some
    THEN build_alphabet(None, c.avoid_ambiguous)
    ELSE build_alphabet(c.alphabet, c.avoid_ambiguous)

\* a check that does not exempt the clamped estimate
CapacityExceededUnclamped(c, capacity) == c.unique /\ BigLess(capacity, c.count)

\* cfg.unique and cap != 10**18 and cfg.count > cap
CapacityExceeded(c, capacity) ==
    c.unique /\ capacity # CapCeiling /\ BigLess(capacity, c.count)

\* a loop that tests len(keys) <= cfg.count
LoopContinuesOffByOne(ks, c) == ~BigLess(c.count, BigFromNat(Len(ks)))

\* while len(keys) < cfg.count
LoopContinues(ks, c) == BigLess(BigFromNat(Len(ks)), c.count)

\* a loop that never consults seen
IsDuplicateNever(c, k, sn) == FALSE

\* a loop that skips the keys it has not seen
IsDuplicateInverted(c, k, sn) == c.unique /\ k \notin sn

\* if cfg.unique: if k in seen: continue
IsDuplicate(c, k, sn) == c.unique /\ k \in sn

\* cfg.count >= 5000 and len(keys) % 1000 == 0
ProgressDue(c, ks) == ~BigLess(c.count, BigFromNat(5000)) /\ Len(ks) % 1000 = 0

\* cfg.unique and attempts > cfg.count * 50 and len(alphabet) < 10
WarnDue(c, att, alph) ==
    c.unique /\ SignedGreater(att, BigMulSmall(c.count, 50)) /\ Len(alph) < 10

(***************************************************************************)
(* Bounds of the exploration.  The loop is explored for the configurations *)
(* whose runs can be enumerated: at most MaxRuns sequences of picks per    *)
(* key and MaxRuns lists of picks per run, and, per run, at most           *)
(* ExtraRejects rejected draws beyond the count * 50 the warning waits     *)
(* for.                                                                    *)
(***************************************************************************)
MaxRuns == 16
ExtraRejects == 2

Explorable ==
    /\ ~BigLess(BigFromNat(MaxRuns), cfg.count)
    /\ ~BigLess(BigFromNat(MaxRuns), cap)
    /\ ~BigLess(BigFromNat(MaxRuns),
                BigPowBelow(BigFromNat(1), BigToNat(cap), BigToNat(cfg.count),
                            BigFromNat(MaxRuns + 1)))

RejectLimit == 50 * BigToNat(cfg.count) + ExtraRejects

\* lines 123-138: build the alphabet, check the capacity, set up the locals
Enter ==
    /\ pc = "call"
    /\ LET a == ConfigAlphabet(cfg)
           ks_len == keyspace_length(cfg)
           c == capacity_estimate(Len(a.value), ks_len)
       IN  IF a.raised
           THEN /\ pc' = "raised_alphabet"
                /\ UNCHANGED <<alphabet, cap>>
           ELSE /\ alphabet' = a.value
                /\ cap' = c
                /\ pc' = IF CapacityExceeded(cfg, c) THEN "raised_capacity" ELSE "loop"
    /\ UNCHANGED <<cfg, keys, seen, attempts, log, rejected, fs, save_status>>

\* lines 140-160: one iteration of the while loop, rng.choice picking draws
Iterate ==
    /\ pc = "loop"
    /\ LoopContinues(keys, cfg)
    /\ Explorable
    /\ \E draws \in DrawChoices(cfg, alphabet) :
         LET k == generate_one(cfg, alphabet, draws)
             att == SignedInc(attempts)
         IN  IF IsDuplicate(cfg, k, seen)
             THEN /\ rejected < RejectLimit
                  /\ attempts' = att
                  /\ rejected' = rejected + 1
                  /\ UNCHANGED <<keys, seen, log>>
             ELSE LET ks == Append(keys, k)
                      progress == IF ProgressDue(cfg, ks) THEN <<"progress">> ELSE <<>>
                      warn == WarnDue(cfg, att, alphabet)
                  IN  /\ seen' = IF cfg.unique THEN seen \cup {k} ELSE seen
                      /\ keys' = ks
                      /\ log' = log \o progress
                                    \o (IF warn THEN <<"warning">> ELSE <<>>)
                      /\ attempts' = IF warn THEN AttemptsSentinel ELSE att
                      /\ UNCHANGED rejected
    /\ UNCHANGED <<pc, cfg, alphabet, cap, fs, save_status>>

\* lines 140 and 162: the loop condition fails and the list is returned
Return ==
    /\ pc = "loop"
    /\ ~LoopContinues(keys, cfg)
    /\ pc' = "returned"
    /\ UNCHANGED <<cfg, alphabet, cap, keys, seen, attempts, log, rejected,
                   fs, save_status>>

NextGen == Enter \/ Iterate \/ Return

\* the state at the call of generate_keys(c)
CallState(c) ==
    /\ pc = "call"
    /\ cfg = c
    /\ alphabet = <<>>
    /\ cap = <<>>
    /\ keys = <<>>
    /\ seen = {}
    /\ attempts = SignedZero
    /\ log = <<>>
    /\ rejected = 0

(***************************************************************************)
(* save_keys.  A path is its sequence of components (<<"out", "keys.txt">> *)
(* is out/keys.txt, <<>> the current directory); the file system is the    *)
(* set of directories that exist and the files with their contents.        *)
(***************************************************************************)
\* str.lower() on one character: A..Z; the Latin-1 letters U+00C0..U+00DE
\* (U+00D7 is the multiplication sign); the Greek capital mu
LowerChar(ch) ==
    IF ch \in Range(UpperLetters)
    THEN LowerLetters[CHOOSE i \in 1..Len(UpperLetters) : UpperLetters[i] = ch]
    ELSE IF Ord(ch) \in (192..222) \ {215} THEN Chr(Ord(ch) + 32)
    ELSE IF Ord(ch) = 924 THEN Chr(956)
    ELSE ch

Lower(s) == [i \in 1..Len(s) |-> LowerChar(s[i])]

RECURSIVE LStrip(_)
LStrip(s) == IF s # <<>> /\ IsSpace(Head(s)) THEN LStrip(Tail(s)) ELSE s

RECURSIVE RStrip(_)
RStrip(s) ==
    IF s # <<>> /\ IsSpace(s[Len(s)]) THEN RStrip(SubSeq(s, 1, Len(s) - 1)) ELSE s

\* str.strip()
Strip(s) == RStrip(LStrip(s))

\* fmt.lower().strip()
NormalizeFormat(fmt) == Strip(Lower(fmt))

RECURSIVE Concat(_)
Concat(parts) == IF parts = <<>> THEN <<>> ELSE Head(parts) \o Concat(Tail(parts))

\* "txt": f.write(k + "\n") for every key
TxtContent(ks) == Concat([i \in 1..Len(ks) |-> ks[i] \o <<"\n">>])

\* csv.writer, excel dialect: a field holding the delimiter, the quote
\* character or a line break is quoted, its quotes doubled; an empty field
\* alone in its row is written as ""
CsvField(k) ==
    IF k = <<>> \/ Range(k) \cap {",", "\"", "\r", "\n"} # {}
    THEN <<"\"">>
         \o Concat([i \in 1..Len(k) |-> IF k[i] = "\"" THEN <<"\"", "\"">> ELSE <<k[i]>>])
         \o <<"\"">>
    ELSE k

CsvRow(k) == CsvField(k) \o <<"\r", "\n">>

\* "csv": the header row cd_key, then one row per key
CsvContent(ks) ==
    CsvRow(<<"c", "d", "_", "k", "e", "y">>)
    \o Concat([i \in 1..Len(ks) |-> CsvRow(ks[i])])

HexDigits == Digits \o <<"a", "b", "c", "d", "e", "f">>

\* "{0:04x}".format(n)
Hex4(n) ==
    <<HexDigits[((n \div 4096) % 16) + 1], HexDigits[((n \div 256) % 16) + 1],
      HexDigits[((n \div 16) % 16) + 1], HexDigits[(n % 16) + 1]>>

\* one character inside a JSON string, ensure_ascii=True: the quote, the
\* backslash and \n \r \t \f \b have short escapes, the other characters
\* outside U+0020..U+007E are written \uXXXX
JsonChar(ch) ==
    CASE ch = "\"" -> <<"\\", "\"">>
      [] ch = "\\" -> <<"\\", "\\">>
      [] ch = "\n" -> <<"\\", "n">>
      [] ch = "\r" -> <<"\\", "r">>
      [] ch = "\t" -> <<"\\", "t">>
      [] ch = "\f" -> <<"\\", "f">>
      [] Ord(ch) = 8 -> <<"\\", "b">>
      [] OTHER -> IF Ord(ch) \in 32..126
                  THEN <<ch>>
                  ELSE <<"\\", "u">> \o Hex4(Ord(ch))

JsonString(k) ==
    <<"\"">> \o Concat([i \in 1..Len(k) |-> JsonChar(k[i])]) \o <<"\"">>

\* "json": json.dump({"cd_keys": keys}, f, indent=2)
JsonContent(ks) ==
    <<"{", "\n", " ", " ">> \o JsonString(<<"c", "d", "_", "k", "e", "y", "s">>)
    \o <<":", " ", "[">>
    \o (IF ks = <<>> THEN <<>>
        ELSE Concat([i \in 1..Len(ks) |->
                        (IF i = 1 THEN <<>> ELSE <<",">>)
                        \o <<"\n", " ", " ", " ", " ">> \o JsonString(ks[i])])
             \o <<"\n", " ", " ">>)
    \o <<"]", "\n", "}">>

SupportedFormats == {<<"t", "x", "t">>, <<"c", "s", "v">>, <<"j", "s", "o", "n">>}

FormatContent(fmt, ks) ==
    IF fmt = <<"t", "x", "t">> THEN TxtContent(ks)
    ELSE IF fmt = <<"c", "s", "v">> THEN CsvContent(ks)
    ELSE JsonContent(ks)

\* os.path.dirname(out_path) or "."
DirName(path) == SubSeq(path, 1, Len(path) - 1)

\* os.makedirs(d, exist_ok=True): the missing directories of d are created
\* from the outermost inwards; a file in the way raises OSError and what was
\* created before it stays
RECURSIVE MakeDirsFrom(_, _, _)
MakeDirsFrom(f, d, i) ==
    IF i > Len(d) THEN [ok |-> TRUE, fs |-> f]
    ELSE LET prefix == SubSeq(d, 1, i)
         IN  IF prefix \in DOMAIN f.files
             THEN [ok |-> FALSE, fs |-> f]
             ELSE MakeDirsFrom([f EXCEPT !.dirs = @ \cup {prefix}], d, i + 1)

MakeDirs(f, d) == MakeDirsFrom(f, d, 1)

\* open(out_path, "w") and the writes: the file is created or replaced; a
\* directory of that name raises OSError
WriteFile(f, path, content) ==
    IF path \in f.dirs
    THEN [ok |-> FALSE, fs |-> f]
    ELSE [ok |-> TRUE,
          fs |-> [f EXCEPT !.files =
                     [q \in DOMAIN f.files \cup {path} |->
                         IF q = path THEN content ELSE f.files[q]]]]

\* save_keys: the file system it leaves and how it ended
save_keys(f, ks, out_path, fmt) ==
    LET nfmt == NormalizeFormat(fmt)
        made == MakeDirs(f, DirName(out_path))
    IN  IF ~made.ok
        THEN [status |-> "oserror", fs |-> made.fs]
        ELSE IF nfmt \in SupportedFormats
        THEN LET w == WriteFile(made.fs, out_path, FormatContent(nfmt, ks))
             IN  [status |-> IF w.ok THEN "saved" ELSE "oserror", fs |-> w.fs]
        ELSE [status |-> "unsupported", fs |-> made.fs]

\* the paths and format tokens a caller passes
SavePaths ==
    {<<"keys.txt">>, <<"out", "keys.out">>, <<"out">>, <<"keys.txt", "sub", "k.csv">>}

FormatTokens ==
    {<<"t", "x", "t">>, <<"c", "s", "v">>, <<"j", "s", "o", "n">>,
     <<"T", "X", "T">>, <<" ", "C", "s", "v", "\n">>, <<"x", "m", "l">>,
     <<"t", "x", "t", "2">>, <<"t", "x", "t", Chr(11)>>, <<>>}

\* a caller saves the list generate_keys returned
SaveKeys ==
    /\ pc = "returned"
    /\ \E out_path \in SavePaths, fmt \in FormatTokens :
         LET r == save_keys(fs, keys, out_path, fmt)
         IN  /\ fs' = r.fs
             /\ save_status' = r.status
    /\ UNCHANGED genVars

Next == Enter \/ Iterate \/ Return \/ SaveKeys

\* only the current directory exists
EmptyFs == [dirs |-> {<<>>}, files |-> <<>>]

(***************************************************************************)
(* The configurations the calls are made with.  Each family is a set of    *)
(* valid configurations (count >= 1, length >= 1, a pattern holds an 'X'). *)
(***************************************************************************)
MaxCount == 2
MaxLength == 1
MaxFmtLength == 3
MaxGroupSize == 3
MaxCustomLen == 3
MaxPreLength == 61

\* the batch loop: few keys, alphabets of at most two characters
LoopAlphabets ==
    {<<"A", "B">>, <<"a", "A">>, <<"A", " ", "B">>, <<"A", "0">>, <<"A">>}

LoopPatterns == {None, Some(<<"X", "-", "X">>), Some(<<"x", "X">>)}

LoopConfigs ==
    {[GenConfig EXCEPT !.count = BigFromNat(n), !.length = len, !.pattern = pat,
                       !.alphabet = Some(alph), !.avoid_ambiguous = avoid,
                       !.unique = uniq, !.uppercase = upper] :
        n \in 1..MaxCount, len \in 1..MaxLength, pat \in LoopPatterns,
        alph \in LoopAlphabets, avoid \in BOOLEAN, uniq \in BOOLEAN,
        upper \in BOOLEAN}

\* one key per call: the shapes of lengths, groups, separators and patterns
FmtAlphabets == {<<"A", "B">>, <<"a", "b">>, <<"ß", "a">>}

FmtSeparators == {<<"-">>, <<>>, <<"x">>, <<"-", "-">>}

FmtPatterns ==
    {None, Some(<<"X">>), Some(<<"X", "X", "-", "X">>), Some(<<"x", "X", "-", "ß", "X">>)}

FmtConfigs ==
    {[GenConfig EXCEPT !.count = BigFromNat(1), !.length = len, !.pattern = pat,
                       !.alphabet = Some(alph), !.avoid_ambiguous = FALSE,
                       !.unique = uniq, !.groupsize = gs, !.sep = sep,
                       !.uppercase = upper] :
        len \in 1..MaxFmtLength, pat \in FmtPatterns, alph \in FmtAlphabets,
        uniq \in BOOLEAN, gs \in -1..MaxGroupSize, sep \in FmtSeparators,
        upper \in BOOLEAN}

\* the alphabet: every custom string of at most MaxCustomLen characters
AlphabetChars == {"A", "b", "0", "I", " ", Chr(11)}

RECURSIVE StringsUpTo(_, _)
StringsUpTo(chars, n) ==
    IF n = 0 THEN {<<>>}
    ELSE LET shorter == StringsUpTo(chars, n - 1)
         IN  shorter \cup {Append(t, ch) : t \in shorter, ch \in chars}

AlphabetConfigs ==
    {[GenConfig EXCEPT !.count = BigFromNat(1), !.length = 1,
                       !.alphabet = custom, !.avoid_ambiguous = avoid,
                       !.unique = FALSE] :
        custom \in {None} \cup {Some(t) : t \in StringsUpTo(AlphabetChars, MaxCustomLen)},
        avoid \in BOOLEAN}

\* the capacity check: counts and lengths on both sides of 10**18
PreAlphabets ==
    {Some(<<"A", "B">>), Some(<<"a", "A">>), Some(DEFAULT_ALPHABET_NO_AMBIG),
     Some(DEFAULT_ALPHABET_FULL), None}

PrePatterns == {None, Some(<<"X", "X", "-", "X">>)}

PreCounts ==
    {BigFromNat(1), BigFromNat(2), BigFromNat(3), BigFromNat(4), BigFromNat(5),
     BigFromNat(8), BigFromNat(9),
     capacity_estimate(2, 59), BigInc(capacity_estimate(2, 59)),
     BigDec(CapCeiling), CapCeiling, BigInc(CapCeiling),
     BigMulSmall(CapCeiling, 2)}

PreConfigs ==
    {[GenConfig EXCEPT !.count = n, !.length = len, !.pattern = pat,
                       !.alphabet = alph, !.avoid_ambiguous = avoid,
                       !.unique = uniq] :
        n \in PreCounts, len \in 1..MaxPreLength, pat \in PrePatterns,
        alph \in PreAlphabets, avoid \in BOOLEAN, uniq \in BOOLEAN}

\* saving: keys that need quoting or escaping in a file
SaveAlphabets == {<<"A", ",">>, <<"a", "\"">>, <<"ß", "\\">>, <<Chr(8), "é">>}

SaveConfigs ==
    {[GenConfig EXCEPT !.count = BigFromNat(n), !.length = 1,
                       !.alphabet = Some(alph), !.avoid_ambiguous = FALSE,
                       !.unique = FALSE, !.uppercase = upper] :
        n \in 1..MaxCount, alph \in SaveAlphabets, upper \in BOOLEAN}

InitWith(configs) ==
    /\ \E c \in configs : CallState(c)
    /\ fs = EmptyFs
    /\ save_status = "none"

Init == InitWith(LoopConfigs)
InitFmt == InitWith(FmtConfigs)
InitAlphabet == InitWith(AlphabetConfigs)
InitPre == InitWith(PreConfigs)
InitSave == InitWith(SaveConfigs)

\* generate_keys on the loop family
Spec == Init /\ [][NextGen]_vars
\* generate_keys on the formatting family
SpecFmt == InitFmt /\ [][NextGen]_vars
\* generate_keys on the alphabet family
SpecAlphabet == InitAlphabet /\ [][NextGen]_vars
\* generate_keys on the capacity family
SpecPre == InitPre /\ [][NextGen]_vars
\* generate_keys, then save_keys
SpecSave == InitSave /\ [][Next]_vars

\* a draw that is accepted
Accept == Iterate /\ keys' # keys

\* the random source keeps producing every key, so a key that is still
\* missing is drawn in the end; the function returns once its loop ends
SpecFair == Init /\ [][NextGen]_vars /\ WF_vars(Accept) /\ WF_vars(Return) /\ WF_vars(Enter)

(***************************************************************************)
(* Properties.                                                             *)
(***************************************************************************)
\* cfg.count as a number, for the configurations whose count is small
Count == BigToNat(cfg.count)

InLoopOrReturned == pc \in {"loop", "returned"}

\* every key generate_one can return for the configuration
Outputs == {generate_one(cfg, alphabet, d) : d \in DrawChoices(cfg, alphabet)}

PairwiseDistinct(ks) == \A i, j \in 1..Len(ks) : i # j => ks[i] # ks[j]

Warned == "warning" \in Range(log)

\* C1: whenever generate_keys returns, the list has exactly count keys; the
\* list changes only by one key appended at its end, and never holds more
\* than count keys.
C1_ReturnsCountKeys ==
    /\ [](pc = "returned" => Len(keys) = Count)
    /\ [](Len(keys) <= Count)
    /\ [][keys' # keys => \E k \in Outputs : keys' = Append(keys, k)]_vars

C1_Witness ==
    pc = "returned" /\ Len(keys) = 2 /\ rejected > 0 /\ ~cfg.uppercase

\* C2: with unique set, the keys collected so far are pairwise distinct and
\* seen is exactly the set of them, at every step of the loop and at the
\* return; with unique clear no draw is rejected: every draw is in the list.
C2_UniqueKeysDistinct ==
    InLoopOrReturned =>
        /\ cfg.unique => PairwiseDistinct(keys) /\ seen = Range(keys)
        /\ ~cfg.unique => rejected = 0 /\ attempts = [neg |-> FALSE, mag |-> BigFromNat(Len(keys))]

C2_Witness ==
    /\ pc = "returned" /\ cfg.unique /\ rejected > 2
    /\ Len(keys) = 2 /\ cfg.uppercase /\ Truthy(cfg.pattern)

\* C4: with unique set, a configuration that cannot produce count distinct
\* keys never gets into the loop: the capacity check has raised before.
C4_ImpossibleRequestNeverLoops ==
    (pc = "loop" /\ cfg.unique) => Count <= Cardinality(Outputs)

\* C9: in a unique run over an alphabet of fewer than 10 characters, once more
\* than count * 50 draws have been rejected the warning has been logged.
C9_WarnedOnceRejectsExceed ==
    (InLoopOrReturned /\ cfg.unique /\ Len(alphabet) < 10 /\ rejected > Count * 50)
        => Warned

\* the configuration can produce the keys it is asked for
CanProduce == ~cfg.unique \/ Count <= Cardinality(Outputs)

\* C10: the loop ends.  With unique clear it returns after exactly count
\* draws; with unique set and count distinct keys producible it returns under
\* fair draws, however many duplicates were rejected on the way.  (Stated of
\* the runs the exploration enumerates.)
C10_LoopTerminates ==
    /\ []((pc = "returned" /\ ~cfg.unique) =>
            attempts = [neg |-> FALSE, mag |-> cfg.count])
    /\ (pc = "loop" /\ Explorable /\ CanProduce) ~> (pc = "returned")

C10_Witness ==
    pc = "returned" /\ cfg.unique /\ Len(keys) = 2 /\ rejected >= RejectLimit

\* acc * base^e, by e multiplications
RECURSIVE PowerOf(_, _, _)
PowerOf(acc, base, e) ==
    IF e = 0 THEN acc
    ELSE IF Len(acc) = 0 THEN <<>>
    ELSE PowerOf(BigMulSmall(acc, base), base, e - 1)

\* k: the 'X' placeholders of the pattern, or cfg.length without a pattern
KeyspaceK ==
    IF Truthy(cfg.pattern)
    THEN Len(SelectSeq(cfg.pattern.str, LAMBDA ch : ch = "X"))
    ELSE cfg.length

\* min(|alphabet|^k, 10^18)
EstimatedCapacity ==
    LET power == PowerOf(BigFromNat(1), Len(alphabet), KeyspaceK)
    IN  IF BigLess(power, CapCeiling) THEN power ELSE CapCeiling

\* C3: generate_keys raises the capacity error exactly when unique is set, the
\* estimate min(|alphabet|^k, 10^18) is below 10^18 and count exceeds it; it
\* raises before any draw, with no key collected.
C3_CapacityErrorExactly ==
    pc \in {"loop", "returned", "raised_capacity"} =>
        /\ pc = "raised_capacity" <=>
              /\ cfg.unique
              /\ BigLess(EstimatedCapacity, CapCeiling)
              /\ BigLess(EstimatedCapacity, cfg.count)
        /\ pc = "raised_capacity" =>
              keys = <<>> /\ seen = {} /\ attempts = SignedZero /\ log = <<>>

C3_Witness ==
    /\ pc = "raised_capacity"
    /\ Len(alphabet) = 2 /\ ~Truthy(cfg.pattern) /\ cfg.length = 1
    /\ cfg.count = BigFromNat(3)

\* the grouped form of raw, position by position: blocks of groupsize
\* characters of raw, each but the last followed by sep
SeparatorsIn(len, groupsize) ==
    IF groupsize <= 0 \/ len = 0 THEN 0 ELSE (len + groupsize - 1) \div groupsize - 1

GroupedShape(raw, groupsize, sep) ==
    IF groupsize <= 0 THEN raw
    ELSE LET unit == groupsize + Len(sep)
             total == Len(raw) + SeparatorsIn(Len(raw), groupsize) * Len(sep)
         IN  [pos \in 1..total |->
                LET block == (pos - 1) \div unit
                    offset == (pos - 1) % unit
                IN  IF offset < groupsize
                    THEN raw[block * groupsize + offset + 1]
                    ELSE sep[offset - groupsize + 1]]

RawStrings == [1..cfg.length -> Range(alphabet)]

FixedLengthMode == InLoopOrReturned /\ ~Truthy(cfg.pattern)

\* C5 as stated: without a pattern every key is the grouping of some raw
\* string of cfg.length alphabet characters, whatever the uppercase flag.
C5_KeyIsGroupedRaw ==
    FixedLengthMode =>
        \A i \in 1..Len(keys) :
            /\ Len(keys[i]) = cfg.length
                   + SeparatorsIn(cfg.length, cfg.groupsize) * Len(cfg.sep)
            /\ \E raw \in RawStrings :
                   keys[i] = GroupedShape(raw, cfg.groupsize, cfg.sep)

\* C5, amended: without a pattern every key is the grouping of some raw string
\* of cfg.length alphabet characters, upper-cased as a whole (separators
\* included) when uppercase is set and left as it is otherwise.
C5_KeyIsUppercasedGroupedRaw ==
    FixedLengthMode =>
        \A i \in 1..Len(keys) :
            \E raw \in RawStrings :
                keys[i] = IF cfg.uppercase
                          THEN Upper(GroupedShape(raw, cfg.groupsize, cfg.sep))
                          ELSE GroupedShape(raw, cfg.groupsize, cfg.sep)

C5_Witness ==
    /\ pc = "returned" /\ ~Truthy(cfg.pattern)
    /\ cfg.uppercase /\ cfg.length = 3 /\ cfg.groupsize = 2 /\ cfg.sep = <<"x">>
    /\ keys = << <<"A", "B", "X", "A">> >>

\* the strings of the pattern's shape: its literals in place, one character
\* of chars at every 'X'
RECURSIVE ShapeFrom(_, _, _)
ShapeFrom(pattern, chars, i) ==
    IF i > Len(pattern) THEN {<<>>}
    ELSE {<<ch>> \o rest :
            ch \in (IF pattern[i] = "X" THEN chars ELSE {pattern[i]}),
            rest \in ShapeFrom(pattern, chars, i + 1)}

PatternMode == InLoopOrReturned /\ Truthy(cfg.pattern)

\* C6 as stated: with a pattern every key has the pattern's length, its
\* literals unchanged in place and an alphabet character at every 'X'.
C6_KeyMatchesPattern ==
    PatternMode =>
        \A i \in 1..Len(keys) :
            /\ Len(keys[i]) = Len(cfg.pattern.str)
            /\ \A j \in 1..Len(cfg.pattern.str) :
                   IF cfg.pattern.str[j] = "X"
                   THEN keys[i][j] \in Range(alphabet)
                   ELSE keys[i][j] = cfg.pattern.str[j]

\* C6, amended: with a pattern every key is a string of the pattern's shape
\* (literals in place, an alphabet character at every 'X'), upper-cased as a
\* whole when uppercase is set and left as it is otherwise; groupsize and sep
\* play no part.
C6_KeyIsUppercasedPatternFill ==
    PatternMode =>
        \A i \in 1..Len(keys) :
            \E t \in ShapeFrom(cfg.pattern.str, Range(alphabet), 1) :
                keys[i] = IF cfg.uppercase THEN Upper(t) ELSE t

C6_Witness ==
    /\ pc = "returned" /\ cfg.uppercase /\ cfg.groupsize = 2
    /\ cfg.pattern = Some(<<"x", "X", "-", "ß", "X">>)
    /\ cfg.alphabet = Some(<<"a", "b">>) /\ cfg.sep = <<"x">>
    /\ keys = << <<"X", "A", "-", "S", "S", "B">> >>

\* what is left of the base characters: no whitespace and, with
\* avoid_ambiguous, none of 0 O 1 I L
BaseChars ==
    IF cfg.alphabet.some /\ cfg.alphabet.str # <<>> THEN cfg.alphabet.str
    ELSE IF cfg.avoid_ambiguous THEN DEFAULT_ALPHABET_NO_AMBIG
    ELSE DEFAULT_ALPHABET_FULL

KeptChars ==
    {ch \in Range(BaseChars) :
        /\ ~IsSpace(ch)
        /\ cfg.avoid_ambiguous => ch \notin {"0", "O", "1", "I", "L"}}

FirstIndex(s, ch) == CHOOSE i \in 1..Len(s) : s[i] = ch /\ \A j \in 1..(i - 1) : s[j] # ch

\* C7: build_alphabet raises exactly when fewer than 2 characters are left;
\* otherwise the alphabet generate_keys samples from has at least 2
\* characters, none repeated, none whitespace, none of 0 O 1 I L with
\* avoid_ambiguous, in the order of their first occurrence in the base.
C7_AlphabetNormalized ==
    pc # "call" =>
        /\ pc = "raised_alphabet" <=> Cardinality(KeptChars) < 2
        /\ pc # "raised_alphabet" =>
              /\ Len(alphabet) >= 2
              /\ Range(alphabet) = KeptChars
              /\ \A i, j \in 1..Len(alphabet) :
                    i < j => FirstIndex(BaseChars, alphabet[i])
                                < FirstIndex(BaseChars, alphabet[j])

C7_Witness ==
    /\ pc = "returned" /\ cfg.avoid_ambiguous
    /\ cfg.alphabet = Some(<<"b", "0", "A">>) /\ alphabet = <<"b", "A">>

\* C8: a save_keys call that ends with the unsupported-format error leaves the
\* file system as it found it.
C8_UnsupportedFormatLeavesFs ==
    [][save_status' = "unsupported" => fs' = fs]_vars

====
